---- MODULE Spec2Model ----
(***************************************************************************)
(* flatten-repo: discovery, filtering, classification and XML              *)
(* serialization of a set of files (src/src/lib.rs, src/src/main.rs).      *)
(*                                                                         *)
(* Paths are TLA+ strings.  File contents are run-length encoded byte      *)
(* strings: a sequence of runs [u |-> unit, n |-> count], where a unit is  *)
(* one UTF-8 encoded character or one stray byte:                          *)
(*   "a" "<" ">" "&" "\"" "'"   one ASCII byte each                        *)
(*   "\f" "\r"                  the control bytes 0x0C and 0x0D            *)
(*   "NUL"                      the zero byte                              *)
(*   "EUR"                      E2 82 AC, the three bytes of U+20AC        *)
(*   "BOM"                      EF BB BF, the UTF-8 byte order mark        *)
(*   "xFF"                      the byte FF, never valid in UTF-8          *)
(* Decoded text uses the same run-length form over characters; "FFFD" is   *)
(* U+FFFD and "FEFF" is U+FEFF, three bytes each in UTF-8.                 *)
(***************************************************************************)
EXTENDS Integers, Sequences, FiniteSets, TLC

VARIABLES
    disk,          \* the filesystem: entries in directory-walk order
    repo,          \* the enclosing git work tree, if any
    args,          \* main: the parsed command line, stdin paths appended
    flattener,     \* the FlattenRepo built by FlattenRepo::new
    pattern_i,     \* find_files: index of the config.paths entry in turn
    entries,       \* find_files: what the glob iterator has yet to yield
    seen_files,    \* find_files: the HashSet of paths already taken
    files,         \* find_files: the Vec of discovered paths
    found,         \* the value find_files returned
    writer,        \* generate_xml_from_files: the bytes written so far
    file_i,        \* generate_xml_from_files: index of the file in turn
    xml,           \* the value generate_xml returned
    stdout,        \* what the process wrote to standard output
    exit_code,     \* the process's exit status
    path,          \* read_file_contents: the path being read
    read_result,   \* read_file_contents: its return value
    pc             \* position of the program

vars == <<disk, repo, args, flattener, pattern_i, entries, seen_files, files,
          found, writer, file_i, xml, stdout, exit_code, path, read_result, pc>>

\* Option<T>: None is the empty sequence, Some(x) the sequence of x alone
None == <<>>
Some(x) == <<x>>

\* Result<T>
Ok(x) == [tag |-> "Ok", val |-> x]
Err(kind) == [tag |-> "Err", kind |-> kind]
NoResult == [tag |-> "NoResult"]

\* lib.rs:19
BINARY_FILE_CHECK_SIZE == 8192

----------------------------------------------------------------------------
(* Run-length encoded strings *)

Run(u, n) == [u |-> u, n |-> n]

\* n copies of unit u, and one of each unit of a tuple
Rep(u, n) == IF n = 0 THEN <<>> ELSE <<Run(u, n)>>
Lit(us) == [i \in 1..Len(us) |-> Run(us[i], 1)]

\* canonical form: no empty run, no two adjacent runs of one unit
RECURSIVE Canon(_)
Canon(rs) ==
    IF rs = <<>> THEN <<>>
    ELSE LET r == Head(rs)
             t == Canon(Tail(rs))
         IN  IF r.n = 0 THEN t
             ELSE IF t # <<>> /\ Head(t).u = r.u
                  THEN <<Run(r.u, r.n + Head(t).n)>> \o Tail(t)
                  ELSE <<r>> \o t

\* String::push_str on run-length encoded text
PushStr(s, t) == Canon(s \o t)

\* bytes of one unit on disk, and of one decoded character in UTF-8
InWidth(u) == IF u \in {"EUR", "BOM"} THEN 3 ELSE 1
OutWidth(c) == IF c \in {"EUR", "FFFD", "FEFF"} THEN 3 ELSE 1

----------------------------------------------------------------------------
(* Strings *)

RECURSIVE Contains(_, _)
Contains(s, t) ==
    /\ Len(s) >= Len(t)
    /\ (SubSeq(s, 1, Len(t)) = t \/ Contains(Tail(s), t))

StartsWith(s, t) == Len(s) >= Len(t) /\ SubSeq(s, 1, Len(t)) = t

\* the characters of a string, as a tuple
Chars(s) == [i \in 1..Len(s) |-> SubSeq(s, i, i)]

\* the pieces of s between its "/" separators
RECURSIVE Split(_)
Split(s) ==
    IF s = "" THEN <<"">>
    ELSE LET r == Split(Tail(s))
         IN  IF Head(s) = "/" THEN <<"">> \o r
             ELSE <<Head(s) \o Head(r)>> \o Tail(r)

RECURSIVE Join(_)
Join(parts) ==
    IF parts = <<>> THEN ""
    ELSE IF Len(parts) = 1 THEN parts[1]
    ELSE parts[1] \o "/" \o Join(Tail(parts))

\* shell wildcard match of the whole of s: "*" any string, "?" any character
RECURSIVE WildMatch(_, _)
WildMatch(p, s) ==
    IF p = "" THEN s = ""
    ELSE IF Head(p) = "*"
         THEN WildMatch(Tail(p), s) \/ (s # "" /\ WildMatch(p, Tail(s)))
         ELSE /\ s # ""
              /\ (Head(p) = "?" \/ Head(p) = Head(s))
              /\ WildMatch(Tail(p), Tail(s))

----------------------------------------------------------------------------
(* std::path::Path *)

\* Path::is_absolute
IsAbsolute(p) == StartsWith(p, "/")

\* Path::components: "/" for the root, "." only when leading, "..", names;
\* repeated separators and inner "." are dropped
Components(p) ==
    LET ps == Split(p)
    IN  (IF IsAbsolute(p) THEN <<"/">> ELSE <<>>)
        \o (IF ps[1] = "." THEN <<".">> ELSE <<>>)
        \o SelectSeq(ps, LAMBDA c : c # "" /\ c # ".")

\* the string left of p after a leading "." component and what
\* Components::as_path skips after it
RECURSIVE TrimLeft(_)
TrimLeft(p) ==
    IF StartsWith(p, "/") THEN TrimLeft(Tail(p))
    ELSE IF p = "." THEN ""
    ELSE IF StartsWith(p, "./") THEN TrimLeft(Tail(Tail(p)))
    ELSE p

\* path.strip_prefix(".").unwrap_or(&path), lib.rs:125 and lib.rs:151
StripCurDir(p) ==
    IF Components(p) # <<>> /\ Components(p)[1] = "."
    THEN TrimLeft(Tail(p))
    ELSE p

----------------------------------------------------------------------------
(* The filesystem *)

\* the process's current directory
Cwd == "/w"

\* the entry of disk with canonical path p
Lookup(p) ==
    IF p = "/" THEN [path |-> "/", kind |-> "dir", listable |-> TRUE]
    ELSE IF \E i \in 1..Len(disk) : disk[i].path = p
    THEN disk[CHOOSE i \in 1..Len(disk) : disk[i].path = p]
    ELSE [path |-> p, kind |-> "absent"]

Abs(names) == "/" \o Join(names)

\* walk the components cs from the directory with names `at`; the names of
\* the entry reached, or <<"?">> when a step leaves the tree
RECURSIVE Walk(_, _)
Walk(at, cs) ==
    IF cs = <<>> THEN at
    ELSE IF Lookup(Abs(at)).kind # "dir" THEN <<"?">>
    ELSE IF Head(cs) \in {"/", "."} THEN Walk(at, Tail(cs))
    ELSE IF Head(cs) = ".."
         THEN Walk(IF at = <<>> THEN at ELSE SubSeq(at, 1, Len(at) - 1), Tail(cs))
         ELSE Walk(Append(at, Head(cs)), Tail(cs))

\* the canonical path of the entry p names, seen from Cwd
Resolve(p) ==
    Abs(Walk(IF IsAbsolute(p) THEN <<>> ELSE Tail(Components(Cwd)), Components(p)))

\* Path::is_file, Path::is_dir
is_file(p) == p # "" /\ Lookup(Resolve(p)).kind = "file"
is_dir(p) == p # "" /\ Lookup(Resolve(p)).kind = "dir"

\* fs::read_dir(dir): the entries of a directory, in name order
ParentOf(p) == Abs(LET n == Tail(Components(p)) IN SubSeq(n, 1, Len(n) - 1))
FileName(p) == LET n == Components(p) IN n[Len(n)]
Children(dir) == SelectSeq(disk, LAMBDA e : ParentOf(e.path) = dir)

----------------------------------------------------------------------------
(* glob::glob *)

\* a pattern component without metacharacters
IsLiteral(c) == ~Contains(c, "*") /\ ~Contains(c, "?") /\ ~Contains(c, "[")

\* Pattern::new fails: an unclosed "[", or "**" that is not a whole component
BadGlob(pattern) ==
    \E c \in {Split(pattern)[i] : i \in 1..Len(Split(pattern))} :
        \/ Contains(c, "[") /\ ~Contains(c, "]")
        \/ Contains(c, "**") /\ c # "**"

\* path.join(name), and PathBuf::from(name) in the current directory
PathJoin(dir, name) ==
    IF dir = "." THEN name
    ELSE IF dir = "/" THEN "/" \o name
    ELSE dir \o "/" \o name

Names(es) == [i \in 1..Len(es) |-> FileName(es[i].path)]

\* consecutive "**" components collapse to one
RECURSIVE Collapse(_)
Collapse(pats) ==
    IF Len(pats) >= 2 /\ pats[1] = "**" /\ pats[2] = "**" THEN Collapse(Tail(pats))
    ELSE pats

\* The walk of glob::Paths.  GlobFill is fill_todo at directory `dir` for the
\* pattern components `pats`; GlobItem is Paths::next on one queued path.
\* Both give the results in the order the iterator yields them.
RECURSIVE GlobFill(_, _)
RECURSIVE GlobItem(_, _)
RECURSIVE GlobItems(_, _, _)
RECURSIVE GlobMatch(_, _)

GlobFill(dir, pats) ==
    LET c == Head(pats)
    IN  IF IsLiteral(c)
        THEN LET next == PathJoin(dir, c)
                 special == c \in {".", ".."}
             IN  IF \/ special /\ is_dir(dir)
                    \/ ~special /\ Lookup(Resolve(next)).kind # "absent"
                 THEN IF Len(pats) = 1 THEN <<Ok(next)>>
                      ELSE GlobFill(next, Tail(pats))
                 ELSE <<>>
        ELSE IF is_dir(dir)
        THEN IF ~Lookup(Resolve(dir)).listable
             THEN <<Err("GlobError")>>
             ELSE GlobItems(Names(Children(Resolve(dir))), dir, pats)
        ELSE <<>>

GlobItems(names, dir, pats) ==
    IF names = <<>> THEN <<>>
    ELSE GlobItem(PathJoin(dir, Head(names)), pats)
         \o GlobItems(Tail(names), dir, pats)

GlobMatch(p, pats) ==
    IF WildMatch(Head(pats), FileName(p))
    THEN IF Len(pats) = 1 THEN <<Ok(p)>> ELSE GlobFill(p, Tail(pats))
    ELSE <<>>

GlobItem(p, pats) ==
    IF Head(pats) = "**"
    THEN LET ps == Collapse(pats)
         IN  IF is_dir(p)
             THEN (IF Len(ps) = 1 THEN <<Ok(p)>> ELSE GlobMatch(p, Tail(ps)))
                  \o GlobFill(p, ps)
             ELSE IF Len(ps) = 1 THEN <<>> ELSE GlobMatch(p, Tail(ps))
    ELSE GlobMatch(p, pats)

\* glob::glob(&pattern): Err for a malformed pattern, else the sequence of
\* Ok(path) and Err(GlobError) the iterator yields
glob(pattern) ==
    IF BadGlob(pattern) THEN Err("GlobPattern")
    ELSE LET pats == SelectSeq(Split(pattern), LAMBDA c : c # "")
         IN  Ok(IF pats = <<>> THEN <<>>
                ELSE GlobFill(IF IsAbsolute(pattern) THEN "/" ELSE ".", pats))

----------------------------------------------------------------------------
(* yash_fnmatch *)

\* Pattern::parse(without_escape(p)): a bracket expression naming an
\* undefined character class does not compile
PatternParse(p) == IF Contains(p, "[[:x:]]") THEN Err("FNMatchPattern") ELSE Ok(p)

\* pattern.find(text).is_some(): the pattern matches some substring
PatternFind(pattern, text) ==
    \E i \in 1..(Len(text) + 1) : \E j \in (i - 1)..Len(text) :
        WildMatch(pattern, SubSeq(text, i, j))

----------------------------------------------------------------------------
(* read_file_contents, lib.rs:181-203 *)

\* DecodeReaderBytesBuilder::new().encoding(Some(UTF_8)).build(file): the
\* byte stream the decoder yields.  A leading byte order mark is removed, a
\* byte that is not UTF-8 becomes U+FFFD, everything else passes through.
DecodeUnit(u) == CASE u = "xFF" -> "FFFD" [] u = "BOM" -> "FEFF" [] OTHER -> u

StripBom(rs) ==
    IF rs # <<>> /\ rs[1].u = "BOM"
    THEN <<Run("BOM", rs[1].n - 1)>> \o Tail(rs)
    ELSE rs

Decoder(bytes) ==
    LET s == StripBom(Canon(bytes))
    IN  Canon([i \in 1..Len(s) |-> Run(DecodeUnit(s[i].u), s[i].n)])

\* decoder.by_ref().take(limit).read_to_end(&mut initial_buffer): the first
\* `limit` bytes of the stream.  full: the characters wholly inside the
\* limit; partial: how many bytes of the next character also fit (the
\* decoder hands out single bytes once fewer than 4 are asked for); orphan:
\* the bytes of that character left in the stream; rest: what follows.
RECURSIVE Take(_, _)
Take(rs, limit) ==
    IF rs = <<>> \/ limit = 0
    THEN [full |-> <<>>, partial |-> 0, orphan |-> 0, rest |-> rs]
    ELSE LET r == Head(rs)
             w == OutWidth(r.u)
         IN  IF r.n * w <= limit
             THEN LET t == Take(Tail(rs), limit - r.n * w)
                  IN  [t EXCEPT !.full = <<r>> \o @]
             ELSE LET q == limit \div w
                      k == limit % w
                  IN  IF k = 0
                      THEN [full |-> Rep(r.u, q), partial |-> 0, orphan |-> 0,
                            rest |-> <<Run(r.u, r.n - q)>> \o Tail(rs)]
                      ELSE [full |-> Rep(r.u, q), partial |-> k, orphan |-> w - k,
                            rest |-> Rep(r.u, r.n - q - 1) \o Tail(rs)]

\* initial_buffer[..bytes_read].contains(&0)
ContainsZero(initial) == \E i \in 1..Len(initial.full) : initial.full[i].u = "NUL"

\* String::from_utf8_lossy(&initial_buffer): a truncated sequence at the end
\* of the buffer becomes one U+FFFD
FromUtf8Lossy(initial) ==
    initial.full \o (IF initial.partial > 0 THEN <<Run("FFFD", 1)>> ELSE <<>>)

\* decoder.read_to_string(&mut content): appends the rest of the stream, or
\* fails with InvalidData when the appended bytes are not UTF-8 (they start
\* with the orphaned continuation bytes of a split character)
ReadToString(content, initial) ==
    IF initial.orphan > 0
    THEN Err("Io")
    ELSE Ok(PushStr(content, initial.rest))

read_file_contents(p) ==
    LET file == Lookup(Resolve(p))
    IN  IF file.kind # "file" \/ ~file.readable
        THEN Err("Io")
        ELSE LET initial == Take(Decoder(file.bytes), BINARY_FILE_CHECK_SIZE)
             IN  IF ContainsZero(initial)
                 THEN Ok([is_binary |-> TRUE, content |-> None])
                 ELSE LET r == ReadToString(FromUtf8Lossy(initial), initial)
                      IN  IF r.tag = "Err" THEN r
                          ELSE Ok([is_binary |-> FALSE, content |-> Some(r.val)])

----------------------------------------------------------------------------
(* quick_xml::Writer *)

\* lib.rs:16, lib.rs:17
XML_NODE_TYPE_REPO == "repository"
XML_NODE_TYPE_FILE == "file"

\* The written document is a tuple of symbols: one per character of a path
\* or of file content, one per character of markup, and one per markup name
\* ("file", "path", "lt", ...) or declaration.

\* the characters of run-length encoded text, as a tuple
RECURSIVE Expand(_)
Expand(rs) ==
    IF rs = <<>> THEN <<>>
    ELSE [i \in 1..Head(rs).n |-> Head(rs).u] \o Expand(Tail(rs))

\* path.to_string_lossy(), lib.rs:216 (paths here are valid UTF-8)
to_string_lossy(p) == Chars(p)

\* quick_xml::escape::escape
EscapeChar(c) ==
    CASE c = "<" -> <<"&", "lt", ";">>
      [] c = ">" -> <<"&", "gt", ";">>
      [] c = "&" -> <<"&", "amp", ";">>
      [] c = "'" -> <<"&", "apos", ";">>
      [] c = "\"" -> <<"&", "quot", ";">>
      [] OTHER -> <<c>>

RECURSIVE escape(_)
escape(cs) == IF cs = <<>> THEN <<>> ELSE EscapeChar(Head(cs)) \o escape(Tail(cs))

\* BytesDecl::new("1.0", Some("UTF-8"), None)
BytesDecl == <<"<?xml version=\"1.0\" encoding=\"UTF-8\"?>">>

\* BytesStart::new(name), elem.push_attribute((key, value))
BytesStart(name) == <<name>>
push_attribute(elem, key, value) ==
    elem \o <<" ", key, "=", "\"">> \o escape(value) \o <<"\"">>

\* Writer::write_event for each kind of event
EventStart(elem) == <<"<">> \o elem \o <<">">>
EventEmpty(elem) == <<"<">> \o elem \o <<"/", ">">>
EventEnd(name) == <<"<", "/", name, ">">>
EventText(content) == escape(content)

\* the element of one file, lib.rs:215-232
FileElement(p, r) ==
    LET elem == push_attribute(BytesStart(XML_NODE_TYPE_FILE), "path", to_string_lossy(p))
    IN  IF r.is_binary
        THEN EventEmpty(push_attribute(elem, "binary", Chars("true")))
        ELSE EventStart(elem)
             \o (IF r.content # None THEN EventText(Expand(r.content[1])) ELSE <<>>)
             \o EventEnd(XML_NODE_TYPE_FILE)

----------------------------------------------------------------------------
(* FlattenRepo *)

\* FlattenRepo::new, lib.rs:58-78
new(config, git) ==
    LET cfg == IF config.paths = <<>> THEN [config EXCEPT !.paths = <<".">>] ELSE config
        parsed == [i \in 1..Len(cfg.ignore_patterns) |-> PatternParse(cfg.ignore_patterns[i])]
    IN  IF \E i \in 1..Len(parsed) : parsed[i].tag = "Err"
        THEN Err("FNMatchPattern")
        ELSE Ok([config |-> cfg, git_repo |-> git,
                 ignore_patterns |-> [i \in 1..Len(parsed) |-> parsed[i].val]])

\* repo.status_should_ignore(path).unwrap_or(false)
status_should_ignore(r, p) == Resolve(p) \in r.ignored

\* is_ignored_by_git, lib.rs:94-98
is_ignored_by_git(p) ==
    IF flattener.git_repo = None THEN FALSE
    ELSE status_should_ignore(flattener.git_repo[1], p)

\* is_ignored_by_patterns, lib.rs:101-105
is_ignored_by_patterns(p) ==
    \E i \in 1..Len(flattener.ignore_patterns) :
        PatternFind(flattener.ignore_patterns[i], p)

\* seen_files.contains(relpath): PathBuf compares by components
SeenKey(p) == Components(p)

\* lib.rs:116-120
Rewrite(pattern) ==
    IF flattener.config.recursive /\ is_dir(pattern)
    THEN pattern \o "/**/*"
    ELSE pattern

\* DirectFile without the gitignore check of lib.rs:131-134
DirectFile_NoGitCheck(pattern, seen, fs) ==
    LET relpath == StripCurDir(pattern)
    IN  IF SeenKey(relpath) \in seen THEN [seen |-> seen, files |-> fs]
        ELSE IF is_ignored_by_patterns(relpath) THEN [seen |-> seen, files |-> fs]
        ELSE [seen |-> seen \cup {SeenKey(relpath)}, files |-> Append(fs, relpath)]

\* lib.rs:124-139: a pattern that names a file; the new seen_files and files
DirectFile(pattern, seen, fs) ==
    LET relpath == StripCurDir(pattern)
    IN  IF SeenKey(relpath) \in seen THEN [seen |-> seen, files |-> fs]
        ELSE IF is_ignored_by_patterns(relpath) THEN [seen |-> seen, files |-> fs]
        ELSE IF is_ignored_by_git(relpath) THEN [seen |-> seen, files |-> fs]
        ELSE [seen |-> seen \cup {SeenKey(relpath)}, files |-> Append(fs, relpath)]

\* lib.rs:144-172: one entry of the glob iterator
GlobEntry(entry, seen, fs) ==
    IF entry.tag = "Err" THEN [seen |-> seen, files |-> fs]
    ELSE IF ~is_file(entry.val) THEN [seen |-> seen, files |-> fs]
    ELSE LET relpath == StripCurDir(entry.val)
         IN  IF SeenKey(relpath) \in seen THEN [seen |-> seen, files |-> fs]
             ELSE IF is_ignored_by_patterns(relpath) THEN [seen |-> seen, files |-> fs]
             ELSE IF is_ignored_by_git(relpath) THEN [seen |-> seen, files |-> fs]
             ELSE [seen |-> seen \cup {SeenKey(relpath)}, files |-> Append(fs, relpath)]

\* AfterEntry leaving the loop at an Err entry
AfterEntry_StopOnError(es) == IF Head(es).tag = "Err" THEN <<>> ELSE Tail(es)

\* what the iterator still holds after one entry: the loop goes on, also
\* past an Err entry, lib.rs:171
AfterEntry(es) == Tail(es)

----------------------------------------------------------------------------
(* The run of the program *)

\* main.rs:47-83 up to and including FlattenRepo::new
Main ==
    /\ pc = "main"
    /\ \/ \* reading the paths from stdin fails, main.rs:54-57
          /\ exit_code' = 1
          /\ pc' = "exit"
          /\ UNCHANGED <<flattener, pattern_i, seen_files, files>>
       \/ LET paths == IF args.paths = <<>> THEN <<".">> ELSE args.paths
              r == new([recursive |-> args.recursive, verbose |-> args.verbose,
                        ignore_patterns |-> args.ignore, paths |-> paths], repo)
          IN  IF r.tag = "Err"
              THEN /\ exit_code' = 1
                   /\ pc' = "exit"
                   /\ UNCHANGED <<flattener, pattern_i, seen_files, files>>
              ELSE /\ flattener' = r.val
                   /\ pattern_i' = 1
                   /\ seen_files' = {}
                   /\ files' = <<>>
                   /\ pc' = "find_files"
                   /\ UNCHANGED exit_code
    /\ UNCHANGED <<disk, repo, args, entries, found, writer, file_i, xml, stdout,
                   path, read_result>>

AfterPattern(es) ==
    IF es = <<>> THEN /\ pattern_i' = pattern_i + 1
                      /\ pc' = "find_files"
    ELSE /\ pc' = "glob"
         /\ UNCHANGED pattern_i

\* find_files, lib.rs:112-143: one entry of config.paths
FindFilesPattern ==
    /\ pc = "find_files"
    /\ pattern_i <= Len(flattener.config.paths)
    /\ LET pattern == Rewrite(flattener.config.paths[pattern_i])
       IN  IF is_file(pattern)
           THEN LET r == DirectFile(pattern, seen_files, files)
                IN  /\ seen_files' = r.seen
                    /\ files' = r.files
                    /\ pattern_i' = pattern_i + 1
                    /\ UNCHANGED <<entries, found, xml, pc>>
           ELSE LET g == glob(pattern)
                IN  IF g.tag = "Err"
                    THEN /\ found' = g
                         /\ xml' = g
                         /\ pc' = "main_result"
                         /\ UNCHANGED <<entries, pattern_i, seen_files, files>>
                    ELSE /\ entries' = g.val
                         /\ AfterPattern(g.val)
                         /\ UNCHANGED <<seen_files, files, found, xml>>
    /\ UNCHANGED <<disk, repo, args, flattener, writer, file_i, stdout, exit_code,
                   path, read_result>>

\* find_files, lib.rs:143-173: one entry the glob iterator yields
FindFilesEntry ==
    /\ pc = "glob"
    /\ LET r == GlobEntry(Head(entries), seen_files, files)
       IN  /\ seen_files' = r.seen
           /\ files' = r.files
    /\ entries' = AfterEntry(entries)
    /\ AfterPattern(entries')
    /\ UNCHANGED <<disk, repo, args, flattener, found, writer, file_i, xml, stdout,
                   exit_code, path, read_result>>

\* find_files, lib.rs:176, and generate_xml, lib.rs:82-83
FindFilesReturn ==
    /\ pc = "find_files"
    /\ pattern_i > Len(flattener.config.paths)
    /\ found' = Ok(files)
    /\ pc' = "generate"
    /\ UNCHANGED <<disk, repo, args, flattener, pattern_i, entries, seen_files, files,
                   writer, file_i, xml, stdout, exit_code, path, read_result>>

\* generate_xml_from_files, lib.rs:208-210
GenerateStart ==
    /\ pc = "generate"
    /\ writer' = BytesDecl \o EventStart(BytesStart(XML_NODE_TYPE_REPO))
    /\ file_i' = 1
    /\ pc' = "generate_files"
    /\ UNCHANGED <<disk, repo, args, flattener, pattern_i, entries, seen_files, files,
                   found, xml, stdout, exit_code, path, read_result>>

\* generate_xml_from_files, lib.rs:213-233: one file
GenerateFile ==
    /\ pc = "generate_files"
    /\ file_i <= Len(files)
    /\ LET r == read_file_contents(files[file_i])
       IN  IF r.tag = "Err"
           THEN /\ xml' = r
                /\ pc' = "main_result"
                /\ UNCHANGED <<writer, file_i>>
           ELSE /\ writer' = writer \o FileElement(files[file_i], r.val)
                /\ file_i' = file_i + 1
                /\ UNCHANGED <<xml, pc>>
    /\ UNCHANGED <<disk, repo, args, flattener, pattern_i, entries, seen_files, files,
                   found, stdout, exit_code, path, read_result>>

\* generate_xml_from_files, lib.rs:236-240
GenerateEnd ==
    /\ pc = "generate_files"
    /\ file_i > Len(files)
    /\ writer' = writer \o EventEnd(XML_NODE_TYPE_REPO)
    /\ xml' = Ok(writer')
    /\ pc' = "main_result"
    /\ UNCHANGED <<disk, repo, args, flattener, pattern_i, entries, seen_files, files,
                   found, file_i, stdout, exit_code, path, read_result>>

\* println!("{}", xml), main.rs:74
Println(out, text) == out \o text \o <<"\n">>

\* ExitStatus without the process::exit(1) of main.rs:77
ExitStatus_AlwaysZero(r) == 0

\* the status main ends with, main.rs:73-79
ExitStatus(r) == IF r.tag = "Ok" THEN 0 ELSE 1

\* main.rs:73-79
MainResult ==
    /\ pc = "main_result"
    /\ stdout' = IF xml.tag = "Ok" THEN Println(stdout, xml.val) ELSE stdout
    /\ exit_code' = ExitStatus(xml)
    /\ pc' = "exit"
    /\ UNCHANGED <<disk, repo, args, flattener, pattern_i, entries, seen_files, files,
                   found, writer, file_i, xml, path, read_result>>

\* the parts of the state a run has not touched yet
NoArgs == [recursive |-> FALSE, verbose |-> FALSE, ignore |-> <<>>, paths |-> <<>>]
NoFlattener == [config |-> [recursive |-> FALSE, verbose |-> FALSE,
                            ignore_patterns |-> <<>>, paths |-> <<>>],
                git_repo |-> None, ignore_patterns |-> <<>>]

SeqsUpTo(S, n) == UNION {[1..k -> S] : k \in 0..n}

Dir(p, listable) == [path |-> p, kind |-> "dir", listable |-> listable]
File(p, bytes, readable) ==
    [path |-> p, kind |-> "file", bytes |-> bytes, readable |-> readable]

----------------------------------------------------------------------------
(* A run of the program in the directory /w *)

MaxPaths == 2

\* /w holds the file x and the directories d and e; d may refuse to be
\* listed and e/& may refuse to be read
Tree(dListable, eReadable) ==
    << Dir("/w", TRUE),
       Dir("/w/d", dListable),
       File("/w/d/x", Lit(<<"NUL", "a">>), TRUE),
       Dir("/w/e", TRUE),
       File("/w/e/&", Lit(<<"<", "a">>), eReadable),
       File("/w/x", Lit(<<"a", "&">>), TRUE) >>

PathArgs == {"x", "./x", "/w/x", "*", "d", "d/*", "*/*", "[", "q*"}
IgnoreLists == {<<>>, <<"q", "x">>, <<"[[:x:]]">>}
Repos == {None, Some([ignored |-> {"/w/x"}])}

Init ==
    /\ \E dl \in BOOLEAN, er \in BOOLEAN : disk = Tree(dl, er)
    /\ repo \in Repos
    /\ \E rec \in BOOLEAN, ig \in IgnoreLists, ps \in SeqsUpTo(PathArgs, MaxPaths) :
          args = [recursive |-> rec, verbose |-> FALSE, ignore |-> ig, paths |-> ps]
    /\ flattener = NoFlattener
    /\ pattern_i = 1
    /\ entries = <<>>
    /\ seen_files = {}
    /\ files = <<>>
    /\ found = NoResult
    /\ writer = <<>>
    /\ file_i = 1
    /\ xml = NoResult
    /\ stdout = <<>>
    /\ exit_code = -1
    /\ path = ""
    /\ read_result = NoResult
    /\ pc = "main"

Next ==
    \/ Main
    \/ FindFilesPattern
    \/ FindFilesEntry
    \/ FindFilesReturn
    \/ GenerateStart
    \/ GenerateFile
    \/ GenerateEnd
    \/ MainResult

Spec == Init /\ [][Next]_vars

----------------------------------------------------------------------------
(* generate_xml_from_files on a list of files with hostile names and text *)

MaxContent == 2

HostileNames == {"a", "<", ">", "&", "\"", "'", "\f", "\r", "&lt;", "a\"b"}
ContentUnits == {"a", "<", ">", "&", "\"", "'", "\f", "\r", "EUR", "xFF"}

\* the file lists: one hostile file alone, or beside the file b
FileLists(p) == {<<p>>, <<p, "b">>, <<"b", p>>}

InitXml ==
    /\ \E p \in HostileNames, c \in SeqsUpTo(ContentUnits, MaxContent),
          ok \in BOOLEAN, bin \in BOOLEAN :
          /\ disk = << Dir("/w", TRUE),
                       File("/w/" \o p, Lit(c), ok),
                       File("/w/b", IF bin THEN Lit(<<"NUL">>) ELSE Lit(<<"a">>), TRUE) >>
          /\ files \in FileLists(p)
    /\ found = Ok(files)
    /\ repo = None
    /\ args = NoArgs
    /\ flattener = NoFlattener
    /\ pattern_i = 1
    /\ entries = <<>>
    /\ seen_files = {}
    /\ writer = <<>>
    /\ file_i = 1
    /\ xml = NoResult
    /\ stdout = <<>>
    /\ exit_code = -1
    /\ path = ""
    /\ read_result = NoResult
    /\ pc = "generate"

NextXml ==
    \/ GenerateStart
    \/ GenerateFile
    \/ GenerateEnd
    \/ MainResult

SpecXml == InitXml /\ [][NextXml]_vars

----------------------------------------------------------------------------
(* One call of read_file_contents on one file *)

MaxHead == 1
MaxTail == 2
PadSlack == 4

ReadUnits == {"a", "NUL", "EUR", "xFF", "BOM"}

\* files of about BINARY_FILE_CHECK_SIZE bytes: a few units, a long run of
\* "a", a few units
PadLens == {0} \cup ((BINARY_FILE_CHECK_SIZE - PadSlack)..(BINARY_FILE_CHECK_SIZE + 1))

ReadFiles ==
    {Lit(h) \o Rep("a", n) \o Lit(t) :
        h \in SeqsUpTo(ReadUnits, MaxHead), n \in PadLens,
        t \in SeqsUpTo(ReadUnits, MaxTail)}

Idle ==
    /\ repo = None
    /\ args = NoArgs
    /\ flattener = NoFlattener
    /\ pattern_i = 1
    /\ entries = <<>>
    /\ seen_files = {}
    /\ files = <<>>
    /\ found = NoResult
    /\ writer = <<>>
    /\ file_i = 1
    /\ xml = NoResult
    /\ stdout = <<>>
    /\ exit_code = -1

InitRead ==
    /\ \E b \in ReadFiles, ok \in BOOLEAN :
          disk = <<Dir("/w", TRUE), File("/w/f", b, ok)>>
    /\ path = "f"
    /\ read_result = NoResult
    /\ pc = "read"
    /\ Idle

ReadFile ==
    /\ pc = "read"
    /\ read_result' = read_file_contents(path)
    /\ pc' = "read_done"
    /\ UNCHANGED <<disk, repo, args, flattener, pattern_i, entries, seen_files, files,
                   found, writer, file_i, xml, stdout, exit_code, path>>

NextRead == ReadFile

SpecRead == InitRead /\ [][NextRead]_vars

----------------------------------------------------------------------------
(* Reading the written document back: XML 1.0 *)

\* Char of XML 1.0, section 2.2: of the characters used here, all but the
\* control characters U+0000 and U+000C
IsXmlChar(c) == c \notin {"NUL", "\f"}

EntityNames == {"lt", "gt", "amp", "apos", "quot"}
EntityChar(name) ==
    CASE name = "lt" -> "<"
      [] name = "gt" -> ">"
      [] name = "amp" -> "&"
      [] name = "apos" -> "'"
      [] name = "quot" -> "\""

ParseFail == [ok |-> FALSE, val |-> <<>>, next |-> 0]
Cons(c, r) == IF r.ok THEN [r EXCEPT !.val = <<c>> \o @] ELSE r

\* character data from d[i] up to, not including, the closing quote of an
\* attribute value (inAttr) or the "<" that ends a text node.  A reference
\* stands for its character; a literal line end is normalized (section
\* 2.11), and literal white space in an attribute value becomes a space
\* (section 3.3.3).  With strict, a character that is no Char is an error.
RECURSIVE ParseCharData(_, _, _, _)
ParseCharData(d, i, inAttr, strict) ==
    IF i > Len(d) THEN ParseFail
    ELSE LET c == d[i]
         IN  IF inAttr /\ c = "\"" THEN [ok |-> TRUE, val |-> <<>>, next |-> i]
             ELSE IF c = "<"
                  THEN IF inAttr THEN ParseFail
                       ELSE [ok |-> TRUE, val |-> <<>>, next |-> i]
             ELSE IF c = "&"
                  THEN IF i + 2 <= Len(d) /\ d[i + 1] \in EntityNames /\ d[i + 2] = ";"
                       THEN Cons(EntityChar(d[i + 1]), ParseCharData(d, i + 3, inAttr, strict))
                       ELSE ParseFail
             ELSE IF strict /\ ~IsXmlChar(c) THEN ParseFail
             ELSE IF c = "\r"
                  THEN IF i < Len(d) /\ d[i + 1] = "\n"
                       THEN ParseCharData(d, i + 1, inAttr, strict)
                       ELSE Cons(IF inAttr THEN " " ELSE "\n",
                                 ParseCharData(d, i + 1, inAttr, strict))
             ELSE IF inAttr /\ c \in {"\n", "\t"}
                  THEN Cons(" ", ParseCharData(d, i + 1, inAttr, strict))
             ELSE Cons(c, ParseCharData(d, i + 1, inAttr, strict))

\* the attributes of a start tag from d[i]: a tuple of [name, value]
RECURSIVE ParseAttributes(_, _, _)
ParseAttributes(d, i, strict) ==
    IF i > Len(d) THEN ParseFail
    ELSE IF d[i] # " " THEN [ok |-> TRUE, val |-> <<>>, next |-> i]
    ELSE IF i + 3 > Len(d) \/ d[i + 1] \notin {"path", "binary"}
            \/ d[i + 2] # "=" \/ d[i + 3] # "\""
         THEN ParseFail
         ELSE LET v == ParseCharData(d, i + 4, TRUE, strict)
              IN  IF ~v.ok THEN ParseFail
                  ELSE LET r == ParseAttributes(d, v.next + 1, strict)
                       IN  IF r.ok /\ \E k \in 1..Len(r.val) : r.val[k].name = d[i + 1]
                           THEN ParseFail
                           ELSE Cons([name |-> d[i + 1], value |-> v.val], r)

\* is d[i..] the tuple of symbols t
At(d, i, t) == i + Len(t) - 1 <= Len(d) /\ SubSeq(d, i, i + Len(t) - 1) = t

\* the file elements from d[i]: a tuple of [attributes, text], text an Option
RECURSIVE ParseFiles(_, _, _)
ParseFiles(d, i, strict) ==
    IF ~At(d, i, <<"<", XML_NODE_TYPE_FILE>>) THEN [ok |-> TRUE, val |-> <<>>, next |-> i]
    ELSE LET a == ParseAttributes(d, i + 2, strict)
         IN  IF ~a.ok THEN ParseFail
             ELSE IF At(d, a.next, <<"/", ">">>)
                  THEN Cons([attributes |-> a.val, text |-> None],
                            ParseFiles(d, a.next + 2, strict))
             ELSE IF ~At(d, a.next, <<">">>) THEN ParseFail
             ELSE LET t == ParseCharData(d, a.next + 1, FALSE, strict)
                  IN  IF ~t.ok \/ ~At(d, t.next, EventEnd(XML_NODE_TYPE_FILE))
                      THEN ParseFail
                      ELSE Cons([attributes |-> a.val, text |-> Some(t.val)],
                                ParseFiles(d, t.next + 4, strict))

\* the whole document: declaration, one root element, its file children
ParseRoot(d, strict) ==
    IF ~At(d, 1, BytesDecl \o <<"<", XML_NODE_TYPE_REPO, ">">>) THEN ParseFail
    ELSE LET f == ParseFiles(d, 5, strict)
         IN  IF f.ok /\ At(d, f.next, EventEnd(XML_NODE_TYPE_REPO))
                     /\ f.next + 3 = Len(d)
             THEN f
             ELSE ParseFail

\* a conforming parse, and one that lets every character pass as a Char
ParseDocument(d) == ParseRoot(d, TRUE)
ParseLenient(d) == ParseRoot(d, FALSE)

\* the value of attribute `name` of a parsed element, as an Option
Attribute(e, name) ==
    IF \E k \in 1..Len(e.attributes) : e.attributes[k].name = name
    THEN Some(e.attributes[CHOOSE k \in 1..Len(e.attributes) :
                               e.attributes[k].name = name].value)
    ELSE None

----------------------------------------------------------------------------
(* What find_files is to return, stated without its loop *)

Paths == flattener.config.paths

\* the candidates one entry of config.paths contributes, in order: itself
\* when it names a file, else the regular files among the Ok entries of its
\* expansion
CandidatesOf(entry) ==
    LET pattern == Rewrite(entry)
    IN  IF is_file(pattern) THEN <<pattern>>
        ELSE IF BadGlob(pattern) THEN <<>>
        ELSE LET ok == SelectSeq(glob(pattern).val,
                                 LAMBDA e : e.tag = "Ok" /\ is_file(e.val))
             IN  [i \in 1..Len(ok) |-> ok[i].val]

RECURSIVE Candidates(_)
Candidates(ps) ==
    IF ps = <<>> THEN <<>> ELSE CandidatesOf(Head(ps)) \o Candidates(Tail(ps))

\* a sequence of paths without the later occurrences of a path
RECURSIVE FirstSeen(_)
FirstSeen(ps) ==
    IF ps = <<>> THEN <<>>
    ELSE LET r == FirstSeen(SubSeq(ps, 1, Len(ps) - 1))
             p == ps[Len(ps)]
         IN  IF \E i \in 1..Len(r) : Components(r[i]) = Components(p) THEN r
             ELSE Append(r, p)

ExpectedFiles ==
    LET cs == Candidates(Paths)
        rel == [i \in 1..Len(cs) |-> StripCurDir(cs[i])]
    IN  FirstSeen(SelectSeq(rel, LAMBDA p : ~is_ignored_by_patterns(p)
                                            /\ ~is_ignored_by_git(p)))

\* some entry of config.paths is expanded and does not compile
AnyBadGlob ==
    \E k \in 1..Len(Paths) : ~is_file(Rewrite(Paths[k])) /\ BadGlob(Rewrite(Paths[k]))

\* the path attributes of the file elements of a document
DocPaths(d) ==
    LET doc == ParseDocument(d)
    IN  [i \in 1..Len(doc.val) |-> Attribute(doc.val[i], "path")]

----------------------------------------------------------------------------
(* Claims about discovery and the run *)

\* C1: each underlying file appears at most once in the list find_files
\* returns, however many entries of config.paths matched it.
C1_EachFileAtMostOnce ==
    found.tag = "Ok" =>
        \A i, j \in 1..Len(found.val) :
            i # j => Resolve(found.val[i]) # Resolve(found.val[j])

\* C2: a path is in the discovered list only if no ignore pattern matches a
\* substring of it and git does not report it ignored.
C2_ExclusionCorrectness ==
    \A i \in 1..Len(files) :
        ~is_ignored_by_patterns(files[i]) /\ ~is_ignored_by_git(files[i])

\* C2 witness: find_files returned a non-empty list although an entry that
\* names a file directly is ignored, as is a file the expansions matched.
C2_Witness ==
    /\ found.tag = "Ok"
    /\ found.val # <<>>
    /\ \E k \in 1..Len(Paths) :
          /\ is_file(Paths[k])
          /\ is_ignored_by_git(StripCurDir(Paths[k]))
    /\ \E k \in 1..Len(Paths) :
          /\ ~is_file(Rewrite(Paths[k]))
          /\ \E i \in 1..Len(CandidatesOf(Paths[k])) :
                is_ignored_by_patterns(StripCurDir(CandidatesOf(Paths[k])[i]))

\* C3: on success the path attributes of the document are the discovered
\* list, which holds the candidates that pass filtering in the order of
\* config.paths and of each expansion, first occurrence kept, and every
\* file that passes filtering appears exactly once.
C3_CompleteOrderedOnce ==
    xml.tag = "Ok" =>
        /\ ParseDocument(xml.val).ok
        /\ DocPaths(xml.val) = [i \in 1..Len(found.val) |-> Some(Chars(found.val[i]))]
        /\ found.val = ExpectedFiles
        /\ \A f \in {Resolve(ExpectedFiles[i]) : i \in 1..Len(ExpectedFiles)} :
              Cardinality({i \in 1..Len(found.val) : Resolve(found.val[i]) = f}) = 1

\* The part of C3 that holds: completeness and order, with one element for
\* each discovered path.
C3_CompleteOrderedPerPath ==
    xml.tag = "Ok" =>
        /\ ParseDocument(xml.val).ok
        /\ DocPaths(xml.val) = [i \in 1..Len(found.val) |-> Some(Chars(found.val[i]))]
        /\ found.val = ExpectedFiles

\* C4: standard output is written only when the whole run succeeded, and
\* then holds the document; a run that fails stops at its first error,
\* writes nothing to standard output and exits with a non-zero status.
C4_NoPartialOutput ==
    /\ pc # "exit" => stdout = <<>> /\ exit_code = -1
    /\ xml.tag = "Err" => pc \in {"main_result", "exit"}
    /\ pc = "exit" =>
          IF xml.tag = "Ok"
          THEN exit_code = 0 /\ stdout = xml.val \o <<"\n">>
          ELSE exit_code # 0 /\ stdout = <<>>
    /\ (\E k \in 1..Len(args.ignore) : PatternParse(args.ignore[k]).tag = "Err") =>
          pc \in {"main", "exit"} /\ found = NoResult

\* C4 witness: the run ended in failure on a file it could not read, after
\* it had serialized another file.
C4_Witness ==
    /\ pc = "exit"
    /\ xml = Err("Io")
    /\ file_i > 1
    /\ exit_code = 1
    /\ stdout = <<>>

\* C8: every path find_files returns is relative to the current directory,
\* without a leading "./", and is the key under which seen_files holds it.
C8_Relativized ==
    found.tag = "Ok" =>
        \A i \in 1..Len(found.val) :
            /\ ~IsAbsolute(found.val[i])
            /\ ~StartsWith(found.val[i], "./")
            /\ SeenKey(found.val[i]) \in seen_files

\* C9: find_files fails exactly when an expanded entry does not compile as
\* a glob; otherwise it returns Ok with every candidate that passes
\* filtering, those after a failed match and of later entries included.
C9_GlobFailurePolicy ==
    /\ found.tag = "Err" => found = Err("GlobPattern") /\ AnyBadGlob
    /\ found.tag = "Ok" => ~AnyBadGlob /\ found.val = ExpectedFiles

\* C9 witness: find_files returned Ok, one expansion yielded an error and
\* then a file that is in the list, and another matched nothing.
C9_Witness ==
    /\ found.tag = "Ok"
    /\ \E k \in 1..Len(Paths) :
          /\ ~is_file(Rewrite(Paths[k]))
          /\ LET g == glob(Rewrite(Paths[k])).val
             IN  \E i, j \in 1..Len(g) :
                    /\ i < j
                    /\ g[i].tag = "Err"
                    /\ g[j].tag = "Ok"
                    /\ \E n \in 1..Len(found.val) : found.val[n] = StripCurDir(g[j].val)
    /\ \E k \in 1..Len(Paths) :
          ~is_file(Rewrite(Paths[k])) /\ glob(Rewrite(Paths[k])) = Ok(<<>>)

----------------------------------------------------------------------------
(* Claims about the written document *)

\* does a tuple of characters hold one of < > & "
HasMeta(cs) == \E i \in 1..Len(cs) : cs[i] \in {"<", ">", "&", "\""}

\* C6: the document is one well-formed XML tree: it parses, with one root
\* and one file child for each discovered file.
C6_WellFormed ==
    xml.tag = "Ok" =>
        /\ ParseDocument(xml.val).ok
        /\ Len(ParseDocument(xml.val).val) = Len(files)

\* C7: parsing the document gives back each path and each text content that
\* holds one of < > & " exactly.
C7_EscapingRoundTrip ==
    xml.tag = "Ok" =>
        LET doc == ParseLenient(xml.val)
        IN  \A i \in 1..Len(files) :
               LET r == read_file_contents(files[i]).val
               IN  /\ HasMeta(Chars(files[i])) =>
                          /\ doc.ok
                          /\ Attribute(doc.val[i], "path") = Some(Chars(files[i]))
                   /\ (~r.is_binary /\ HasMeta(Expand(r.content[1]))) =>
                          /\ doc.ok
                          /\ doc.val[i].text = Some(Expand(r.content[1]))

----------------------------------------------------------------------------
(* Claims about read_file_contents *)

TheFile == Lookup(Resolve(path))

\* a zero byte among the first `limit` bytes of the file as stored on disk
RECURSIVE ZeroWithin(_, _)
ZeroWithin(rs, limit) ==
    IF rs = <<>> \/ limit <= 0 THEN FALSE
    ELSE LET r == Head(rs)
         IN  (r.u = "NUL" /\ r.n > 0) \/ ZeroWithin(Tail(rs), limit - r.n * InWidth(r.u))

\* the file passed the binary check of lib.rs:192
PassedBinaryCheck ==
    /\ TheFile.readable
    /\ ~ContainsZero(Take(Decoder(TheFile.bytes), BINARY_FILE_CHECK_SIZE))

\* C5: a file is classified Binary if and only if a zero byte occurs within
\* its first 8192 bytes, and a Binary file has no content.
C5_BinaryIffZeroInFilePrefix ==
    (pc = "read_done" /\ read_result.tag = "Ok") =>
        /\ read_result.val.is_binary <=>
               ZeroWithin(TheFile.bytes, BINARY_FILE_CHECK_SIZE)
        /\ read_result.val.is_binary => read_result.val.content = None

\* C10: every file that passes the binary check is returned as Text whose
\* content is the decoding of the whole file in one pass.
C10_SingleDecodePass ==
    (pc = "read_done" /\ PassedBinaryCheck) =>
        read_result = Ok([is_binary |-> FALSE,
                          content |-> Some(Decoder(TheFile.bytes))])

====
